---- MODULE Spec2Model ----
(***************************************************************************)
(* Model of GhosttyBridge/ImGuiShims.c: two C-linkage forwarders,          *)
(* ImFontConfig_ImFontConfig and ImGuiStyle_ImGuiStyle, each of which      *)
(* calls the C++ constructor of its structure under the constructor's      *)
(* mangled name.  The model covers the link step that resolves the four    *)
(* symbol names, and the run of a linked program in which caller threads   *)
(* invoke the forwarders on handles into a flat memory.                    *)
(***************************************************************************)
EXTENDS Integers, Sequences, FiniteSets, TLC

\* ---------------------------------------------------------------- bounds
\* Cells of caller-owned memory are addressed 1..MemSize; handle 0 is null.
MemSize == 5
\* Caller threads are 1..NumThreads.
NumThreads == 2
\* Forwarder calls begun in one run.
MaxCalls == 2

Threads == 1..NumThreads
Addrs == 1..MemSize
\* The values a void* argument takes here: null and the address of every cell.
Handles == 0..MemSize

\* ------------------------------------------------------- symbol names
FontCtor == "_ZN12ImFontConfigC1Ev"
StyleCtor == "_ZN10ImGuiStyleC1Ev"
FontFwd == "ImFontConfig_ImFontConfig"
StyleFwd == "ImGuiStyle_ImGuiStyle"

Ctors == {FontCtor, StyleCtor}
Fwds == {FontFwd, StyleFwd}
Symbols == Ctors \cup Fwds

\* The constructor of the structure each entry point is named for.
CtorOf(f) == IF f = FontFwd THEN FontCtor ELSE StyleCtor

VARIABLES
    libDefs,      \* symbols the linked GUI library defines
    phase,        \* "build", "link_failed" or "run"
    linkErrors,   \* the linker's diagnostics
    pc,           \* per thread: "caller", "fwd", "ctor", "fwd_ret", "fault"
    fn,           \* per thread: the forwarder of its current or last call
    self,         \* per thread: the forwarder's parameter, void* self
    ret,          \* per thread: "none" in a call, "void" once it has returned
    ctorFn,       \* per thread: the constructor entered ("none" outside one)
    ctorSelf,     \* per thread: the constructor's parameter, void* self
    ctorIdx,      \* per thread: fields the running constructor has written
    mem,          \* caller-owned memory, cell by cell
    owned,        \* per thread: the cells of the storage it has passed handles to
    calls,        \* forwarder calls begun
    ctorCalls,    \* constructor invocations
    fwdCalls,     \* forwarder calls returned
    shimStatics,  \* static storage the translation unit owns
    shimAllocs,   \* heap blocks the translation unit has allocated
    dmem,         \* memory of the reference run that calls constructors directly
    dfault        \* threads the reference run has faulted

vars == <<libDefs, phase, linkErrors, pc, fn, self, ret, ctorFn, ctorSelf,
          ctorIdx, mem, owned, calls, ctorCalls, fwdCalls, shimStatics,
          shimAllocs, dmem, dfault>>

\* ------------------------------------------------------------ link step
\* Symbols the translation unit defines, all with external strong linkage.
ShimDefines == {FontFwd, StyleFwd}

\* The references of a translation unit that lost the style constructor's.
ShimUndefined_FontOnly == {FontCtor}

\* Symbols the translation unit declares and references but does not define.
ShimUndefined == {FontCtor, StyleCtor}

\* Symbols the consumer (the Zig build of libghostty) references.
ConsumerUndefined == {FontFwd, StyleFwd}

\* Diagnostics of linking consumer, shim and a library defining `lib`.
LinkDiagnostics(lib) ==
    {[error |-> "duplicate_symbol", symbol |-> s] : s \in ShimDefines \cap lib}
    \cup
    {[error |-> "undefined_symbol", symbol |-> s] :
        s \in (ShimUndefined \cup ConsumerUndefined) \ (ShimDefines \cup lib)}

Link ==
    /\ phase = "build"
    /\ linkErrors' = LinkDiagnostics(libDefs)
    /\ phase' = IF linkErrors' = {} THEN "run" ELSE "link_failed"
    /\ UNCHANGED <<libDefs, pc, fn, self, ret, ctorFn, ctorSelf, ctorIdx, mem,
                   owned, calls, ctorCalls, fwdCalls, shimStatics, shimAllocs,
                   dmem, dfault>>

\* ------------------------------------------------------------- run time
\* What each constructor stores, field by field, from its self pointer on.
ImFontConfigDefaults == <<"FontDataOwnedByAtlas=true", "RasterizerMultiply=1">>
ImGuiStyleDefaults == <<"Alpha=1", "WindowPadding=8,8", "WindowRounding=0">>

CtorDefaults(c) == IF c = FontCtor THEN ImFontConfigDefaults ELSE ImGuiStyleDefaults

\* Cells a constructor c run on handle h stores to.
Extent(c, h) == {h + i - 1 : i \in 1..Len(CtorDefaults(c))}

Running == phase = "run" /\ \A t \in Threads : pc[t] # "fault"

\* A caller invokes forwarder f with handle h, which is storage it holds
\* for the structure f constructs.
Call(t, f, h) ==
    /\ Running
    /\ pc[t] = "caller"
    /\ calls < MaxCalls
    /\ calls' = calls + 1
    /\ pc' = [pc EXCEPT ![t] = "fwd"]
    /\ fn' = [fn EXCEPT ![t] = f]
    /\ self' = [self EXCEPT ![t] = h]
    /\ ret' = [ret EXCEPT ![t] = "none"]
    /\ owned' = [owned EXCEPT ![t] = @ \cup Extent(CtorOf(f), h)]
    /\ UNCHANGED <<libDefs, phase, linkErrors, ctorFn, ctorSelf, ctorIdx, mem,
                   ctorCalls, fwdCalls, shimStatics, shimAllocs, dmem, dfault>>

\* The statement of a forwarder's body: call constructor c on handle h.
Delegate(t, c, h) ==
    /\ pc' = [pc EXCEPT ![t] = "ctor"]
    /\ ctorFn' = [ctorFn EXCEPT ![t] = c]
    /\ ctorSelf' = [ctorSelf EXCEPT ![t] = h]
    /\ ctorIdx' = [ctorIdx EXCEPT ![t] = 0]
    /\ ctorCalls' = ctorCalls + 1

\* ------------------------------------------------ faulty forwarder bodies
\* Variants of the forwarders' bodies with one slip each; the properties
\* below are each shown to fail for one of them.

\* ImGuiStyle_ImGuiStyle passing (char*)self + 1.
ImGuiStyle_ImGuiStyle_Offset(t) ==
    /\ Running
    /\ pc[t] = "fwd"
    /\ fn[t] = StyleFwd
    /\ Delegate(t, StyleCtor, self[t] + 1)
    /\ UNCHANGED <<libDefs, phase, linkErrors, fn, self, ret, mem, owned,
                   calls, fwdCalls, shimStatics, shimAllocs, dmem, dfault>>

\* ImGuiStyle_ImGuiStyle keeping a static count of its calls.
ImGuiStyle_ImGuiStyle_Counting(t) ==
    /\ Running
    /\ pc[t] = "fwd"
    /\ fn[t] = StyleFwd
    /\ Delegate(t, StyleCtor, self[t])
    /\ shimStatics' = Append(shimStatics, "call")
    /\ UNCHANGED <<libDefs, phase, linkErrors, fn, self, ret, mem, owned,
                   calls, fwdCalls, shimAllocs, dmem, dfault>>

\* ImFontConfig_ImFontConfig passing a null pointer in place of self.
ImFontConfig_ImFontConfig_Null(t) ==
    /\ Running
    /\ pc[t] = "fwd"
    /\ fn[t] = FontFwd
    /\ Delegate(t, FontCtor, 0)
    /\ UNCHANGED <<libDefs, phase, linkErrors, fn, self, ret, mem, owned,
                   calls, fwdCalls, shimStatics, shimAllocs, dmem, dfault>>

\* ImFontConfig_ImFontConfig calling the style constructor.
ImFontConfig_ImFontConfig_WrongCtor(t) ==
    /\ Running
    /\ pc[t] = "fwd"
    /\ fn[t] = FontFwd
    /\ Delegate(t, StyleCtor, self[t])
    /\ UNCHANGED <<libDefs, phase, linkErrors, fn, self, ret, mem, owned,
                   calls, fwdCalls, shimStatics, shimAllocs, dmem, dfault>>

\* ImFontConfig_ImFontConfig with `if (!self) return;` before the call.
ImFontConfig_ImFontConfig_NullCheck(t) ==
    /\ Running
    /\ pc[t] = "fwd"
    /\ fn[t] = FontFwd
    /\ IF self[t] = 0
       THEN /\ pc' = [pc EXCEPT ![t] = "fwd_ret"]
            /\ UNCHANGED <<ctorFn, ctorSelf, ctorIdx, ctorCalls>>
       ELSE Delegate(t, FontCtor, self[t])
    /\ UNCHANGED <<libDefs, phase, linkErrors, fn, self, ret, mem, owned,
                   calls, fwdCalls, shimStatics, shimAllocs, dmem, dfault>>

\* ImFontConfig_ImFontConfig keeping the first handle it sees in a static
\* and constructing there on every call.
ImFontConfig_ImFontConfig_Cached(t) ==
    /\ Running
    /\ pc[t] = "fwd"
    /\ fn[t] = FontFwd
    /\ shimStatics' = IF shimStatics = <<>> THEN <<self[t]>> ELSE shimStatics
    /\ Delegate(t, FontCtor, shimStatics'[1])
    /\ UNCHANGED <<libDefs, phase, linkErrors, fn, self, ret, mem, owned,
                   calls, fwdCalls, shimAllocs, dmem, dfault>>

\* void ImFontConfig_ImFontConfig(void* self) { _ZN12ImFontConfigC1Ev(self);
ImFontConfig_ImFontConfig(t) ==
    /\ Running
    /\ pc[t] = "fwd"
    /\ fn[t] = FontFwd
    /\ Delegate(t, FontCtor, self[t])
    /\ UNCHANGED <<libDefs, phase, linkErrors, fn, self, ret, mem, owned,
                   calls, fwdCalls, shimStatics, shimAllocs, dmem, dfault>>

\* void ImGuiStyle_ImGuiStyle(void* self) { _ZN10ImGuiStyleC1Ev(self);
ImGuiStyle_ImGuiStyle(t) ==
    /\ Running
    /\ pc[t] = "fwd"
    /\ fn[t] = StyleFwd
    /\ Delegate(t, StyleCtor, self[t])
    /\ UNCHANGED <<libDefs, phase, linkErrors, fn, self, ret, mem, owned,
                   calls, fwdCalls, shimStatics, shimAllocs, dmem, dfault>>

\* The end of a forwarder's body: control returns to the caller.
Return(t) ==
    /\ pc' = [pc EXCEPT ![t] = "caller"]
    /\ ret' = [ret EXCEPT ![t] = "void"]
    /\ ctorFn' = [ctorFn EXCEPT ![t] = "none"]
    /\ ctorSelf' = [ctorSelf EXCEPT ![t] = 0]
    /\ ctorIdx' = [ctorIdx EXCEPT ![t] = 0]
    /\ fwdCalls' = fwdCalls + 1

\* ImFontConfig_ImFontConfig clearing the first field before it returns.
ImFontConfig_ImFontConfig_Return_Clears(t) ==
    /\ Running
    /\ pc[t] = "fwd_ret"
    /\ fn[t] = FontFwd
    /\ Return(t)
    /\ mem' = IF self[t] \in Addrs THEN [mem EXCEPT ![self[t]] = "raw"] ELSE mem
    /\ UNCHANGED <<libDefs, phase, linkErrors, fn, self, owned, calls,
                   ctorCalls, shimStatics, shimAllocs, dmem, dfault>>

\* ImGuiStyle_ImGuiStyle running the constructor again in place of returning.
ImGuiStyle_ImGuiStyle_Return_Again(t) ==
    /\ Running
    /\ pc[t] = "fwd_ret"
    /\ fn[t] = StyleFwd
    /\ pc' = [pc EXCEPT ![t] = "ctor"]
    /\ ctorIdx' = [ctorIdx EXCEPT ![t] = 0]
    /\ UNCHANGED <<libDefs, phase, linkErrors, fn, self, ret, ctorFn, ctorSelf,
                   mem, owned, calls, ctorCalls, fwdCalls, shimStatics,
                   shimAllocs, dmem, dfault>>

\* The closing brace of ImFontConfig_ImFontConfig.
ImFontConfig_ImFontConfig_Return(t) ==
    /\ Running
    /\ pc[t] = "fwd_ret"
    /\ fn[t] = FontFwd
    /\ Return(t)
    /\ UNCHANGED <<libDefs, phase, linkErrors, fn, self, mem, owned, calls,
                   ctorCalls, shimStatics, shimAllocs, dmem, dfault>>

\* The closing brace of ImGuiStyle_ImGuiStyle.
ImGuiStyle_ImGuiStyle_Return(t) ==
    /\ Running
    /\ pc[t] = "fwd_ret"
    /\ fn[t] = StyleFwd
    /\ Return(t)
    /\ UNCHANGED <<libDefs, phase, linkErrors, fn, self, mem, owned, calls,
                   ctorCalls, shimStatics, shimAllocs, dmem, dfault>>

\* --------------------------------------------- the library's constructors
\* The reference run, in which the caller calls the constructor of its
\* structure directly on its handle, makes the same store.
DirectStore(t, outcome) ==
    LET dc == CtorOf(fn[t])
        da == self[t] + ctorIdx[t]
        dlive == ctorIdx[t] < Len(CtorDefaults(dc)) /\ t \notin dfault
    IN IF dlive /\ da \in Addrs
       THEN /\ dmem' = [dmem EXCEPT ![da] = CtorDefaults(dc)[ctorIdx[t] + 1]]
            /\ dfault' = dfault
       ELSE /\ dmem' = dmem
            /\ dfault' = IF dlive /\ outcome = "trap"
                         THEN dfault \cup {t} ELSE dfault

\* The running constructor stores its next field.  A store outside the
\* memory is undefined: it traps, or it is lost and the run goes on.
CtorStore(t) ==
    /\ Running
    /\ pc[t] = "ctor"
    /\ ctorIdx[t] < Len(CtorDefaults(ctorFn[t]))
    /\ LET a == ctorSelf[t] + ctorIdx[t]
           v == CtorDefaults(ctorFn[t])[ctorIdx[t] + 1]
       IN \E outcome \in {"trap", "lost"} :
            /\ IF a \in Addrs
               THEN /\ outcome = "lost"
                    /\ mem' = [mem EXCEPT ![a] = v]
                    /\ pc' = pc
                    /\ ctorIdx' = [ctorIdx EXCEPT ![t] = @ + 1]
               ELSE /\ mem' = mem
                    /\ IF outcome = "trap"
                       THEN pc' = [pc EXCEPT ![t] = "fault"] /\ ctorIdx' = ctorIdx
                       ELSE pc' = pc /\ ctorIdx' = [ctorIdx EXCEPT ![t] = @ + 1]
            /\ DirectStore(t, outcome)
    /\ UNCHANGED <<libDefs, phase, linkErrors, fn, self, ret, ctorFn, ctorSelf,
                   owned, calls, ctorCalls, fwdCalls, shimStatics, shimAllocs>>

\* The constructor has stored every field and returns into the forwarder.
CtorReturn(t) ==
    /\ Running
    /\ pc[t] = "ctor"
    /\ ctorIdx[t] = Len(CtorDefaults(ctorFn[t]))
    /\ pc' = [pc EXCEPT ![t] = "fwd_ret"]
    /\ UNCHANGED <<libDefs, phase, linkErrors, fn, self, ret, ctorFn, ctorSelf,
                   ctorIdx, mem, owned, calls, ctorCalls, fwdCalls, shimStatics,
                   shimAllocs, dmem, dfault>>

\* ------------------------------------------------------- specification
Init ==
    /\ libDefs \in SUBSET Symbols
    /\ phase = "build"
    /\ linkErrors = {}
    /\ pc = [t \in Threads |-> "caller"]
    /\ fn = [t \in Threads |-> FontFwd]
    /\ self = [t \in Threads |-> 0]
    /\ ret = [t \in Threads |-> "none"]
    /\ ctorFn = [t \in Threads |-> "none"]
    /\ ctorSelf = [t \in Threads |-> 0]
    /\ ctorIdx = [t \in Threads |-> 0]
    /\ mem = [a \in Addrs |-> "raw"]
    /\ owned = [t \in Threads |-> {}]
    /\ calls = 0
    /\ ctorCalls = 0
    /\ fwdCalls = 0
    /\ shimStatics = <<>>
    /\ shimAllocs = 0
    /\ dmem = [a \in Addrs |-> "raw"]
    /\ dfault = {}

Next ==
    \/ Link
    \/ \E t \in Threads, f \in Fwds, h \in Handles : Call(t, f, h)
    \/ \E t \in Threads : ImFontConfig_ImFontConfig(t)
    \/ \E t \in Threads : ImGuiStyle_ImGuiStyle(t)
    \/ \E t \in Threads : CtorStore(t)
    \/ \E t \in Threads : CtorReturn(t)
    \/ \E t \in Threads : ImFontConfig_ImFontConfig_Return(t)
    \/ \E t \in Threads : ImGuiStyle_ImGuiStyle_Return(t)

Spec == Init /\ [][Next]_vars

\* Threads run: a forwarder whose constructor has returned goes on to return.
FairSpec ==
    /\ Spec
    /\ \A t \in Threads :
        WF_vars(ImFontConfig_ImFontConfig_Return(t) \/ ImGuiStyle_ImGuiStyle_Return(t))

\* ------------------------------------------------------------ properties
\* Thread t is past the delegated call of its current forwarder call.
Delegated(t) == pc[t] \in {"ctor", "fwd_ret", "fault"}

\* Storage the caller of t's current or last call holds for the structure.
Storage(t) == Extent(IF fn[t] = FontFwd THEN FontCtor ELSE StyleCtor, self[t])

\* No other thread has passed a handle to storage overlapping t's.
Exclusive(t) == \A u \in Threads \ {t} : owned[u] \cap Storage(t) = {}

\* C4: for both entry points, the handle the underlying constructor receives
\* is exactly the handle the forwarder was called with: same value, not
\* offset, copied or replaced.
C4_HandlePassedThrough ==
    \A t \in Threads : Delegated(t) => ctorSelf[t] = self[t]

\* Both constructors are running, each on its caller's non-null handle.
C4_Witness ==
    \E t, u \in Threads :
        /\ pc[t] = "ctor" /\ fn[t] = FontFwd /\ self[t] \in Addrs
        /\ pc[u] = "ctor" /\ fn[u] = StyleFwd /\ self[u] \in Addrs
        /\ self[t] # self[u]
        /\ ctorSelf[t] = self[t] /\ ctorSelf[u] = self[u]

\* C10: ImFontConfig_ImFontConfig enters _ZN12ImFontConfigC1Ev and never
\* _ZN10ImGuiStyleC1Ev, ImGuiStyle_ImGuiStyle enters _ZN10ImGuiStyleC1Ev and
\* never _ZN12ImFontConfigC1Ev, and outside a delegated call a thread is in
\* no constructor at all.
C10_OwnConstructorOnly ==
    \A t \in Threads :
        /\ (Delegated(t) /\ fn[t] = FontFwd) => ctorFn[t] = "_ZN12ImFontConfigC1Ev"
        /\ (Delegated(t) /\ fn[t] = StyleFwd) => ctorFn[t] = "_ZN10ImGuiStyleC1Ev"
        /\ ~Delegated(t) => ctorFn[t] = "none"

\* A font-configuration call and a style call have both had their
\* constructors return, each having stored its own structure's fields.
C10_Witness ==
    \E t, u \in Threads :
        /\ pc[t] = "fwd_ret" /\ fn[t] = FontFwd /\ ctorFn[t] = FontCtor
        /\ pc[u] = "fwd_ret" /\ fn[u] = StyleFwd /\ ctorFn[u] = StyleCtor
        /\ ctorIdx[t] = Len(ImFontConfigDefaults)
        /\ ctorIdx[u] = Len(ImGuiStyleDefaults)

\* C5: whatever the handle, null and out-of-range ones included, a thread
\* leaves a forwarder's entry only into the underlying constructor, which
\* receives that handle; a forwarder yields no value other than void; and a
\* fault arises only inside a constructor, at a store outside the memory.
C5_NoValidationNoErrorPath ==
    /\ [][\A t \in Threads :
            (pc[t] = "fwd" /\ pc'[t] # "fwd") =>
                /\ pc'[t] = "ctor"
                /\ ctorSelf'[t] = self[t]
                /\ ctorCalls' = ctorCalls + 1]_vars
    /\ [](\A t \in Threads :
            /\ ret[t] \in {"none", "void"}
            /\ pc[t] \in {"caller", "fwd", "ctor", "fwd_ret", "fault"}
            /\ pc[t] = "fault" =>
                  ctorFn[t] \in Ctors /\ ctorSelf[t] + ctorIdx[t] \notin Addrs)

\* A null handle has been forwarded to the constructor, which faulted on it.
C5_Witness ==
    \E t \in Threads :
        pc[t] = "fault" /\ self[t] = 0 /\ ctorSelf[t] = 0 /\ ctorFn[t] = FontCtor

\* C3: every forwarder call makes exactly one constructor invocation, so the
\* invocations number the returned calls plus the calls past their delegated
\* call, and equal the returned calls whenever no call is in progress; the
\* translation unit owns no static storage and allocates nothing.
C3_OneDelegatedCallNoState ==
    /\ ctorCalls = fwdCalls + Cardinality({t \in Threads : Delegated(t)})
    /\ ((\A t \in Threads : pc[t] = "caller") => ctorCalls = fwdCalls)
    /\ shimStatics = <<>>
    /\ shimAllocs = 0

\* Calls of both forwarders have returned and none is in progress.
C3_Witness ==
    /\ \A t \in Threads : pc[t] = "caller" /\ ret[t] = "void"
    /\ \E t, u \in Threads : fn[t] = FontFwd /\ fn[u] = StyleFwd
    /\ fwdCalls = MaxCalls
    /\ ctorCalls = MaxCalls

\* The run through the forwarders and the reference run agree on the state
\* a caller observes: the memory, and which threads have faulted.
SameState == mem = dmem /\ dfault = {t \in Threads : pc[t] = "fault"}

\* Thread t, in a call of forwarder f, takes a step.
StepOf(t, f) ==
    /\ fn[t] = f
    /\ pc[t] # "caller"
    /\ pc'[t] # pc[t] \/ ctorIdx'[t] # ctorIdx[t]

\* C1: for any handle and any prior contents of the memory, every step of an
\* ImGuiStyle_ImGuiStyle call, from its entry to its return, takes the run
\* through the forwarder and the run that calls _ZN10ImGuiStyleC1Ev directly
\* on the same handle from equal states to equal states.
C1_StyleForwarderIsConstructor ==
    [][\A t \in Threads : (StepOf(t, StyleFwd) /\ SameState) => SameState']_vars

\* An ImGuiStyle_ImGuiStyle call has returned on storage that a
\* font-configuration constructor had written before, and both runs hold a
\* constructed style there.
C1_Witness ==
    \E t \in Threads :
        /\ pc[t] = "caller" /\ ret[t] = "void" /\ fn[t] = StyleFwd
        /\ fwdCalls = MaxCalls
        /\ Storage(t) \subseteq Addrs
        /\ self[t] + Len(ImGuiStyleDefaults) \in Addrs
        /\ \A i \in 1..Len(ImGuiStyleDefaults) :
              /\ mem[self[t] + i - 1] = ImGuiStyleDefaults[i]
              /\ dmem[self[t] + i - 1] = ImGuiStyleDefaults[i]
        /\ mem[self[t] + Len(ImGuiStyleDefaults)] = ImFontConfigDefaults[2]
        /\ SameState

\* C2: when ImFontConfig_ImFontConfig returns from a call on a handle to
\* storage inside the memory that no other thread has passed a handle into,
\* the return itself stores nothing and every field of the storage holds the
\* default _ZN12ImFontConfigC1Ev stored; the forwarder's call of the
\* constructor stores nothing either.
C2_FontConfigDefaultsAfterCall ==
    [][\A t \in Threads :
        /\ (fn[t] = FontFwd /\ pc[t] = "fwd" /\ pc'[t] # "fwd") => mem' = mem
        /\ (/\ fn[t] = FontFwd /\ pc[t] = "fwd_ret" /\ pc'[t] # "fwd_ret"
            /\ Storage(t) \subseteq Addrs
            /\ Exclusive(t))
           => /\ mem' = mem
              /\ \A i \in 1..Len(ImFontConfigDefaults) :
                    mem'[self[t] + i - 1] = ImFontConfigDefaults[i]]_vars

\* An ImFontConfig_ImFontConfig call on exclusive storage inside the memory
\* has returned and the storage holds the constructor's defaults.
C2_Witness ==
    \E t \in Threads :
        /\ pc[t] = "caller" /\ ret[t] = "void" /\ fn[t] = FontFwd
        /\ Storage(t) \subseteq Addrs
        /\ Exclusive(t)
        /\ \A i \in 1..Len(ImFontConfigDefaults) :
              mem[self[t] + i - 1] = ImFontConfigDefaults[i]

\* C6: under every interleaving, once a call of either forwarder has
\* returned, on storage inside the memory that overlaps no storage another
\* thread has passed a handle to, the storage holds exactly what one call of
\* that constructor alone stores, whatever the other threads are doing.
C6_DistinctHandlesIndependent ==
    \A t \in Threads :
        (/\ pc[t] = "caller" /\ ret[t] = "void"
         /\ Storage(t) \subseteq Addrs
         /\ Exclusive(t))
        => \A i \in 1..Cardinality(Storage(t)) :
              mem[self[t] + i - 1] =
                  (IF fn[t] = FontFwd THEN ImFontConfigDefaults
                                      ELSE ImGuiStyleDefaults)[i]

\* One thread's call has returned with its storage constructed while another
\* thread's constructor, entered through the other forwarder, is part-way
\* through storage of its own.
C6_Witness ==
    \E t, u \in Threads :
        /\ pc[t] = "caller" /\ ret[t] = "void" /\ fn[t] = FontFwd
        /\ Storage(t) \subseteq Addrs /\ Exclusive(t)
        /\ mem[self[t]] = ImFontConfigDefaults[1]
        /\ pc[u] = "ctor" /\ fn[u] = StyleFwd /\ ctorIdx[u] = 1
        /\ Storage(u) \subseteq Addrs
        /\ Storage(u) \cap Storage(t) = {}

\* C7: in a link of the shim with a library that defines both constructors
\* and the plain-named entry points as well, link resolution succeeds.
C7_LinksWithLibraryEntryPoints ==
    (phase # "build" /\ Ctors \subseteq libDefs /\ libDefs \cap Fwds # {})
        => phase = "run"

C9_StraightLineAndReturns ==
    /\ [][\A t \in Threads :
            pc'[t] # pc[t] =>
                <<pc[t], pc'[t]>> \in
                    {<<"caller", "fwd">>, <<"fwd", "ctor">>,
                     <<"ctor", "fwd_ret">>, <<"ctor", "fault">>,
                     <<"fwd_ret", "caller">>}]_vars
    /\ \A t \in Threads :
          (pc[t] = "fwd_ret") ~>
              (pc[t] = "caller" \/ \E u \in Threads : pc[u] = "fault")

\* The constructor of a style call has returned into the forwarder, which has
\* not returned yet.
C9_Witness ==
    \E t \in Threads :
        /\ pc[t] = "fwd_ret" /\ fn[t] = StyleFwd
        /\ ctorIdx[t] = Len(ImGuiStyleDefaults)
        /\ fwdCalls = 0

====
